---- MODULE Spec2Model ----
(***************************************************************************)
(* Model of the batch downloader: src/downloader.js (class downloader and  *)
(* the CLI main), src/index.js (interactive getPlaylistDetails) and the    *)
(* part of src/extractor.js that writes playlist.txt.                      *)
(*                                                                         *)
(* Text is modelled as sequences of tokens: a line of the list file is a   *)
(* sequence of tokens, an argument or an answer is a sequence of           *)
(* characters.  A JavaScript number is a record that is an integer, NaN or *)
(* Infinity.                                                               *)
(***************************************************************************)
EXTENDS Integers, Sequences, FiniteSets, TLC

\* ------------------------------------------------------------------ bounds
MaxLen == 4
MaxConc == 3
MaxIdx == 5
MaxLines == 5

\* ------------------------------------------------------- program constants
DefaultDelay == 15000

\* ------------------------------------------------------ JavaScript numbers
Num(n) == [k |-> "int", v |-> n]
NaN == [k |-> "nan", v |-> 0]
Infinity == [k |-> "inf", v |-> 0]
IsInt(x) == x.k = "int"
isNaN(x) == x.k = "nan"

\* x + 1 (endIndex++, parseInt(..) + 1)
Inc(x) == IF IsInt(x) THEN Num(x.v + 1) ELSE x

\* a < b on JavaScript numbers: false as soon as one side is NaN
JsLt(a, b) ==
  IF isNaN(a) \/ isNaN(b) THEN FALSE
  ELSE IF a.k = "inf" THEN FALSE
  ELSE IF b.k = "inf" THEN TRUE
  ELSE a.v < b.v

\* Math.max(a, b)
MathMax(a, b) ==
  IF isNaN(a) \/ isNaN(b) THEN NaN
  ELSE IF JsLt(a, b) THEN b ELSE a

\* Math.min(a, b)
MathMin(a, b) ==
  IF isNaN(a) \/ isNaN(b) THEN NaN
  ELSE IF JsLt(b, a) THEN b ELSE a

\* the relative-index conversion of Array.prototype.slice
ToIndex(x, len) ==
  IF isNaN(x) THEN 0
  ELSE IF x.k = "inf" THEN len
  ELSE IF x.v < 0 THEN (IF len + x.v < 0 THEN 0 ELSE len + x.v)
  ELSE IF x.v > len THEN len ELSE x.v

\* arr.slice(from, to), both JavaScript numbers, 0-based, to exclusive
Slice(arr, from, to) ==
  SubSeq(arr, ToIndex(from, Len(arr)) + 1, ToIndex(to, Len(arr)))

\* ------------------------------------------------------------- parseInt
IsDigit(c) == c \in {"0", "1", "2", "3", "4", "5", "6", "7", "8", "9"}
DigitVal(c) ==
  CASE c = "0" -> 0 [] c = "1" -> 1 [] c = "2" -> 2 [] c = "3" -> 3
    [] c = "4" -> 4 [] c = "5" -> 5 [] c = "6" -> 6 [] c = "7" -> 7
    [] c = "8" -> 8 [] c = "9" -> 9

RECURSIVE StripLeft(_)
StripLeft(s) ==
  IF s # <<>> /\ Head(s) = " " THEN StripLeft(Tail(s)) ELSE s

RECURSIVE StripRight(_)
StripRight(s) ==
  IF s # <<>> /\ s[Len(s)] = " " THEN StripRight(SubSeq(s, 1, Len(s) - 1)) ELSE s

RECURSIVE ParseDigits(_, _)
ParseDigits(s, acc) ==
  IF s = <<>> \/ ~IsDigit(Head(s)) THEN acc
  ELSE ParseDigits(Tail(s), acc * 10 + DigitVal(Head(s)))

\* parseInt(s) / parseInt(s, 10) on a character sequence
parseInt(s) ==
  LET t == StripLeft(s)
      neg == t # <<>> /\ Head(t) = "-"
      u == IF t # <<>> /\ Head(t) \in {"-", "+"} THEN Tail(t) ELSE t
  IN IF u = <<>> \/ ~IsDigit(Head(u)) THEN NaN
     ELSE IF neg THEN Num(0 - ParseDigits(u, 0)) ELSE Num(ParseDigits(u, 0))

\* the decimal text of an integer -1..9 (what a user types for an index)
Dec(n) ==
  IF n < 0 THEN <<"-">> \o <<<<"0","1","2","3","4","5","6","7","8","9">>[1 - n]>>
  ELSE <<<<"0","1","2","3","4","5","6","7","8","9">>[n + 1]>>

\* ----------------------------------------------------- list file and URLs
VideoIdNames == <<"vidAAAAAAA1", "vidAAAAAAA2", "vidAAAAAAA3", "vidAAAAAAA4",
                  "vidAAAAAAA5", "vidAAAAAAA6", "vidAAAAAAA7", "vidAAAAAAA8">>
VideoIds == {VideoIdNames[j] : j \in 1..Len(VideoIdNames)}

\* `https://www.youtube.com/watch?v=${videoId}` as written by the extractor
UrlLine(j) == <<"https://www.", "youtube.com", "/watch?v=", VideoIdNames[j]>>

\* line.trim()
Trim(line) == StripRight(StripLeft(line))

\* line.includes(tok)
Includes(line, tok) == \E p \in 1..Len(line) : line[p] = tok

\* variant: comment lines are not filtered out
KeepLine_NoComment(line) ==
  /\ line # <<>>
  /\ (Includes(line, "youtube.com") \/ Includes(line, "youtu.be"))

\* the two filters of downloadFromFile on a trimmed line
KeepLine(line) ==
  /\ line # <<>>
  /\ Head(line) # "#"
  /\ (Includes(line, "youtube.com") \/ Includes(line, "youtu.be"))

RECURSIVE SelectLines(_)
SelectLines(lines) ==
  IF lines = <<>> THEN <<>>
  ELSE LET l == Trim(Head(lines))
       IN (IF KeepLine(l) THEN <<l>> ELSE <<>>) \o SelectLines(Tail(lines))

\* content.split('\n').map(trim).filter(..).filter(..)
ParseUrls(lines) == SelectLines(lines)

\* extractVideoId(url): the 11-character id after a recognised URL shape, or
\* "" for null
extractVideoId(url) ==
  LET hits == {p \in 1..(Len(url) - 2) :
                 /\ \/ url[p] = "youtube.com" /\ url[p + 1] = "/watch?v="
                    \/ url[p] = "youtu.be" /\ url[p + 1] = "/"
                 /\ url[p + 2] \in VideoIds}
  IN IF hits = {} THEN ""
     ELSE url[(CHOOSE p \in hits : \A q \in hits : p <= q) + 2]

\* getVideoInfo(videoId).filename: the sanitized title plus ".mp3"; the title
\* of a video is its id here, so two items share a file name exactly when
\* they name the same video
FilenameOf(videoId) == <<videoId, ".mp3">>

\* --------------------------------------------------------------- inputs
\* an option, a command-line flag or a typed answer: absent, a text, or (for
\* a direct call of downloadFromFile) a number
Absent == [given |-> FALSE, text |-> <<>>, num |-> NaN]
Val(n) == [given |-> TRUE, text |-> <<>>, num |-> Num(n)]
\* the number n typed as text; num keeps what the caller meant
ArgOf(n) == [given |-> TRUE, text |-> Dec(n), num |-> Num(n)]

\* the list file holding the first n videos of a playlist, one URL per line
FileFor(n) == [j \in 1..n |-> UrlLine(j)]

\* a list file with a comment, an empty line, a line that is no URL, a padded
\* short URL and a line that names the host but no video
MixedFile ==
  << UrlLine(1), <<"#", "x">>, <<>>, <<"x">>,
     <<" ", "youtu.be", "/", VideoIdNames[2], " ">>, <<"youtube.com", "x">> >>

\* a playlist.txt left by an earlier run
StaleFile == <<UrlLine(Len(VideoIdNames))>>

\* videoUrls.join('\n') read back by content.split('\n')
JoinSplit(list) == IF list = <<>> THEN << <<>> >> ELSE list

VARIABLES
  entry,          \* "direct" | "cli" | "interactive"
  input,          \* [start, end, concurrent, delay] as given by the caller
  file,           \* the list file: [exists, lines]
  playlist,       \* the videos of the remote playlist (interactive entry)
  playlistData,   \* [def, list]: what extractPlaylist returned
  selectedVideos, \* the slice getPlaylistDetails returns
  opts,           \* options of downloadFromFile after the defaults
  urls,           \* the work list parsed from the file
  urlsToProcess,  \* the selected sublist
  results,        \* report.results
  errors,         \* report.errors
  i,              \* loop index of the scheduler
  tasks,          \* the downloadMp3 calls of the current item or chunk
  files,          \* the file names present in the output directory
  dispatched,     \* history: the 0-based sublist positions of every dispatch
  delayLog,       \* history: for every delay, the number of dispatches before it
  elapsed,        \* time spent in throttling delays
  report,         \* <<>> or <<the returned report>>
  thrown,         \* message of the error thrown by downloadFromFile, or ""
  settled,        \* history: <<sublist position, "resolved" | "rejected">>
  complete,       \* history: the file names that hold a finished output
  pc

vars == << entry, input, file, playlist, playlistData, selectedVideos, opts,
           urls, urlsToProcess, results, errors, i, tasks, files, dispatched,
           delayLog, elapsed, report, thrown, settled, complete, pc >>

NoOpts == [concurrent |-> Num(1), delay |-> Num(0), startIndex |-> NaN, endIndex |-> NaN]

InitRest ==
  /\ playlistData = [def |-> FALSE, list |-> <<>>]
  /\ selectedVideos = <<>>
  /\ opts = NoOpts
  /\ urls = <<>>
  /\ urlsToProcess = <<>>
  /\ results = <<>>
  /\ errors = <<>>
  /\ i = 0
  /\ tasks = <<>>
  /\ dispatched = <<>>
  /\ delayLog = <<>>
  /\ elapsed = 0
  /\ report = <<>>
  /\ thrown = ""
  /\ settled = {}
  /\ complete = files
  /\ pc = "start"

\* direct calls of downloadFromFile over the whole list: every list length,
\* concurrency and delay, any files already in the output directory
InitSched ==
  /\ entry = "direct"
  /\ \E c \in 1..MaxConc, d \in {Absent, Val(0)} :
       input = [start |-> Absent, end |-> Absent, concurrent |-> Val(c), delay |-> d]
  /\ \/ \E n \in 0..MaxLen :
          /\ file = [exists |-> TRUE, lines |-> FileFor(n)]
          /\ files \in SUBSET {FilenameOf(VideoIdNames[j]) : j \in 1..n}
     \/ /\ file \in { [exists |-> FALSE, lines |-> <<>>],
                      [exists |-> TRUE, lines |-> MixedFile],
                      [exists |-> TRUE, lines |-> <<UrlLine(1), UrlLine(1)>>],
                      [exists |-> TRUE,
                       lines |-> <<UrlLine(1), UrlLine(2), UrlLine(1)>>] }
        /\ files = {}
  /\ playlist = <<>>
  /\ InitRest

\* the index values a caller supplies
IdxValues == (0 - 1)..MaxIdx

\* every entry point with every start and end, over an empty output directory
InitRange ==
  /\ entry \in {"direct", "cli", "interactive"}
  /\ files = {}
  /\ \E n \in 0..MaxLen :
       /\ playlist = FileFor(n)
       /\ IF entry = "interactive"
            THEN file \in { [exists |-> FALSE, lines |-> <<>>],
                            [exists |-> TRUE, lines |-> StaleFile] }
            ELSE file \in { [exists |-> TRUE, lines |-> FileFor(n)] } \cup
                         { [exists |-> FALSE, lines |-> <<>>] : x \in {entry} \cap {"cli"} }
  /\ \E s, e \in {Absent} \cup {Val(x) : x \in IdxValues} :
       \E c \in {Absent, Val(2)} :
         input =
           IF entry = "direct"
             THEN [start |-> s, end |-> e, concurrent |-> c, delay |-> Absent]
             ELSE [start |-> IF s.given THEN ArgOf(s.num.v) ELSE Absent,
                   end |-> IF e.given THEN ArgOf(e.num.v) ELSE Absent,
                   concurrent |-> IF c.given /\ entry = "cli"
                                    THEN ArgOf(c.num.v) ELSE Absent,
                   delay |-> Absent]
  /\ InitRest

Init == InitSched \/ InitRange

\* the lines a list file is made of: a URL, a padded short URL, a comment
\* that holds a URL, an empty line, a line that is no URL, an indented comment
ParseLines ==
  { UrlLine(1),
    <<" ", "youtu.be", "/", VideoIdNames[2], " ">>,
    <<"#", "youtube.com", "/watch?v=", VideoIdNames[3]>>,
    <<>>,
    <<"x">>,
    <<" ", "#", "youtube.com">> }

\* direct calls of downloadFromFile on every list file of up to MaxLines lines
InitParse ==
  /\ entry = "direct"
  /\ input = [start |-> Absent, end |-> Absent, concurrent |-> Absent,
              delay |-> Absent]
  /\ \E n \in 0..MaxLines : \E ls \in [1..n -> ParseLines] :
       file = [exists |-> TRUE, lines |-> ls]
  /\ files = {}
  /\ playlist = <<>>
  /\ InitRest

\* ------------------------------------------------------- entry points
\* a destructured option with its default
OptNum(a, default) == IF a.given THEN a.num ELSE default

\* getArg(flag, defaultVal) of the CLI
getArg(a, defaultVal) == IF a.given THEN a.text ELSE defaultVal

\* a JavaScript string used as a condition
Truthy(a) == a.given /\ a.text # <<>>

\* a caller invokes downloadFromFile(filePath, options) itself
DirectCall ==
  /\ pc = "start" /\ entry = "direct"
  /\ opts' = [concurrent |-> OptNum(input.concurrent, Num(1)),
              delay |-> OptNum(input.delay, Num(DefaultDelay)),
              startIndex |-> OptNum(input.start, Num(0)),
              endIndex |-> OptNum(input.end, Infinity)]
  /\ pc' = "dff"
  /\ UNCHANGED << complete, settled, entry, input, file, playlist, playlistData, selectedVideos,
                  urls, urlsToProcess, results, errors, i, tasks, files,
                  dispatched, delayLog, elapsed, report, thrown >>

\* main() of downloader.js up to the call of downloadFromFile; the command
\* line names a list file (without arguments main only prints the usage)
CliMain ==
  /\ pc = "start" /\ entry = "cli"
  /\ opts' = [concurrent |-> parseInt(getArg(input.concurrent, <<"1">>)),
              delay |-> parseInt(getArg(input.delay, <<"1", "5", "0", "0", "0">>)),
              startIndex |-> parseInt(getArg(input.start, <<"0">>)),
              endIndex |-> IF Truthy(input.end)
                             THEN Inc(parseInt(getArg(input.end, <<>>)))
                             ELSE Infinity]
  /\ pc' = "dff"
  /\ UNCHANGED << complete, settled, entry, input, file, playlist, playlistData, selectedVideos,
                  urls, urlsToProcess, results, errors, i, tasks, files,
                  dispatched, delayLog, elapsed, report, thrown >>

\* extractPlaylist finds the videos and rewrites playlist.txt
ExtractOk ==
  /\ pc = "start" /\ entry = "interactive"
  /\ file' = [exists |-> TRUE, lines |-> JoinSplit(playlist)]
  /\ playlistData' = [def |-> TRUE, list |-> playlist]
  /\ pc' = "extracted"
  /\ UNCHANGED << complete, settled, entry, input, playlist, selectedVideos, opts, urls,
                  urlsToProcess, results, errors, i, tasks, files, dispatched,
                  delayLog, elapsed, report, thrown >>

\* extractPlaylist fails to fetch the page: returns [] and leaves the file
ExtractFail ==
  /\ pc = "start" /\ entry = "interactive"
  /\ playlistData' = [def |-> TRUE, list |-> <<>>]
  /\ pc' = "extracted"
  /\ UNCHANGED << complete, settled, entry, input, file, playlist, selectedVideos, opts, urls,
                  urlsToProcess, results, errors, i, tasks, files, dispatched,
                  delayLog, elapsed, report, thrown >>

\* the playlist URL has no list id: extractPlaylist returns undefined and
\* playlistData.length throws into the catch of getPlaylistDetails
ExtractInvalid ==
  /\ pc = "start" /\ entry = "interactive"
  /\ playlistData' = [def |-> FALSE, list |-> <<>>]
  /\ pc' = "caught"
  /\ UNCHANGED << complete, settled, entry, input, file, playlist, selectedVideos, opts, urls,
                  urlsToProcess, results, errors, i, tasks, files, dispatched,
                  delayLog, elapsed, report, thrown >>

\* the two indices getPlaylistDetails computes from the answers
totalVideos == Len(playlistData.list)
AskStart ==
  IF ~input.start.given \/ input.start.text = <<>> THEN Num(0)
  ELSE parseInt(input.start.text)
AskEnd ==
  Inc(IF ~input.end.given \/ input.end.text = <<>> THEN Num(totalVideos - 1)
      ELSE parseInt(input.end.text))

\* the validation of getPlaylistDetails
AskInvalid(startIndex, endIndex) ==
  \/ isNaN(startIndex) \/ isNaN(endIndex)
  \/ JsLt(startIndex, Num(0)) \/ JsLt(endIndex, startIndex)

\* the answers fail the validation: an error is printed, nothing is processed
AskReject ==
  /\ pc = "extracted"
  /\ AskInvalid(AskStart, AskEnd)
  /\ pc' = "rejected"
  /\ UNCHANGED << complete, settled, entry, input, file, playlist, playlistData, selectedVideos,
                  opts, urls, urlsToProcess, results, errors, i, tasks, files,
                  dispatched, delayLog, elapsed, report, thrown >>

\* the answers pass: the slice is taken and downloadFromFile is called
AskAccept ==
  /\ pc = "extracted"
  /\ ~AskInvalid(AskStart, AskEnd)
  /\ LET endIdx == MathMin(AskEnd, Num(totalVideos - 1))
     IN selectedVideos' = Slice(playlistData.list, AskStart, Inc(endIdx))
  /\ opts' = [concurrent |-> Num(1), delay |-> Num(DefaultDelay),
              startIndex |-> AskStart, endIndex |-> AskEnd]
  /\ pc' = "dff"
  /\ UNCHANGED << complete, settled, entry, input, file, playlist, playlistData, urls,
                  urlsToProcess, results, errors, i, tasks, files, dispatched,
                  delayLog, elapsed, report, thrown >>

\* ------------------------------------------------- downloadFromFile: begin
\* "Apply index range"
SelectRange(list, startIndex, endIndex) ==
  LET startIdx == MathMax(Num(0), startIndex)
      endIdx == MathMin(Num(Len(list)),
                        IF endIndex = Infinity THEN Num(Len(list)) ELSE endIndex)
  IN Slice(list, startIdx, endIdx)

\* variant: a missing or empty source is reported as an empty run
DffThrow_EmptyReport ==
  /\ pc = "dff"
  /\ ~file.exists \/ ParseUrls(file.lines) = <<>>
  /\ report' = << [results |-> <<>>, errors |-> <<>>, total |-> 0,
                   fullListTotal |-> 0] >>
  /\ pc' = "returned"
  /\ UNCHANGED << complete, settled, entry, input, file, playlist,
                  playlistData, selectedVideos, opts, urls, urlsToProcess,
                  results, errors, i, tasks, files, dispatched, delayLog,
                  elapsed, thrown >>

\* the file is missing or holds no URL: downloadFromFile throws
DffThrow ==
  /\ pc = "dff"
  /\ ~file.exists \/ ParseUrls(file.lines) = <<>>
  /\ thrown' = IF ~file.exists THEN "File not found"
               ELSE "No valid YouTube URLs found in file"
  /\ pc' = "threw"
  /\ UNCHANGED << complete, settled, entry, input, file, playlist, playlistData, selectedVideos,
                  opts, urls, urlsToProcess, results, errors, i, tasks, files,
                  dispatched, delayLog, elapsed, report >>

\* the list is parsed and the sublist selected
DffSelect ==
  /\ pc = "dff"
  /\ file.exists /\ ParseUrls(file.lines) # <<>>
  /\ urls' = ParseUrls(file.lines)
  /\ urlsToProcess' = SelectRange(urls', opts.startIndex, opts.endIndex)
  /\ results' = <<>> /\ errors' = <<>> /\ i' = 0
  /\ pc' = "loop"
  /\ UNCHANGED << complete, settled, entry, input, file, playlist, playlistData, selectedVideos,
                  opts, tasks, files, dispatched, delayLog, elapsed, report,
                  thrown >>

\* ------------------------------------------------------------ downloadMp3
\* variant: the output directory is probed before the metadata is known
StartTask_EarlyCheck(url) ==
  IF extractVideoId(url) = ""
    THEN [url |-> url, phase |-> "rejected", filename |-> <<>>,
          error |-> "Invalid YouTube URL", skipped |-> FALSE,
          infos |-> 0, checks |-> 0, streams |-> 0, writes |-> 0]
    ELSE [url |-> url, phase |-> "info", filename |-> <<>>, error |-> "",
          skipped |-> FALSE,
          infos |-> 0, checks |-> 1, streams |-> 0, writes |-> 0]

\* the synchronous head of downloadMp3(url), up to its first await; the
\* counters of the call: metadata fetches (infos), existence checks of the
\* output path (checks), stream fetches with their transcode (streams) and
\* writes of the output file (writes)
StartTask(url) ==
  IF extractVideoId(url) = ""
    THEN [url |-> url, phase |-> "rejected", filename |-> <<>>,
          error |-> "Invalid YouTube URL", skipped |-> FALSE,
          infos |-> 0, checks |-> 0, streams |-> 0, writes |-> 0]
    ELSE [url |-> url, phase |-> "info", filename |-> <<>>, error |-> "",
          skipped |-> FALSE,
          infos |-> 0, checks |-> 0, streams |-> 0, writes |-> 0]

Settled(t) == t.phase \in {"resolved", "rejected"}

\* the settled calls among ts, the first of which is sublist position base
SettledNow(ts, base) ==
  {<<base + k - 1, ts[k].phase>> : k \in {j \in 1..Len(ts) : Settled(ts[j])}}

\* variant: the result of the existence check is ignored
InfoOk_NoSkip(k) ==
  /\ pc = "await" /\ k \in 1..Len(tasks) /\ tasks[k].phase = "info"
  /\ LET fn == FilenameOf(extractVideoId(tasks[k].url))
     IN tasks' = [tasks EXCEPT
                    ![k].filename = fn,
                    ![k].phase = "ffmpeg",
                    ![k].infos = @ + 1,
                    ![k].checks = @ + 1,
                    ![k].streams = @ + 1]
  /\ settled' = settled \cup SettledNow(tasks', i)
  /\ UNCHANGED << complete, entry, input, file, playlist, playlistData,
                  selectedVideos, opts, urls, urlsToProcess, results, errors,
                  i, files, dispatched, delayLog, elapsed, report, thrown, pc >>

\* getVideoInfo resolves; the existence check either skips or starts ffmpeg
InfoOk(k) ==
  /\ pc = "await" /\ k \in 1..Len(tasks) /\ tasks[k].phase = "info"
  /\ LET fn == FilenameOf(extractVideoId(tasks[k].url))
     IN tasks' = [tasks EXCEPT
                    ![k].filename = fn,
                    ![k].phase = IF fn \in files THEN "resolved" ELSE "ffmpeg",
                    ![k].skipped = fn \in files,
                    ![k].infos = @ + 1,
                    ![k].checks = @ + 1,
                    ![k].streams = IF fn \in files THEN @ ELSE @ + 1]
  /\ settled' = settled \cup SettledNow(tasks', i)
  /\ UNCHANGED << complete, entry, input, file, playlist, playlistData, selectedVideos,
                  opts, urls, urlsToProcess, results, errors, i, files,
                  dispatched, delayLog, elapsed, report, thrown, pc >>

\* getVideoInfo throws
InfoFail(k) ==
  /\ pc = "await" /\ k \in 1..Len(tasks) /\ tasks[k].phase = "info"
  /\ tasks' = [tasks EXCEPT ![k].phase = "rejected",
                            ![k].error = "Failed to get video info",
                            ![k].infos = @ + 1]
  /\ settled' = settled \cup SettledNow(tasks', i)
  /\ UNCHANGED << complete, entry, input, file, playlist, playlistData, selectedVideos,
                  opts, urls, urlsToProcess, results, errors, i, files,
                  dispatched, delayLog, elapsed, report, thrown, pc >>

\* variant: the output lands at another path than the one that is checked
FfmpegEnd_NoFile(k) ==
  /\ pc = "await" /\ k \in 1..Len(tasks) /\ tasks[k].phase = "ffmpeg"
  /\ tasks' = [tasks EXCEPT ![k].phase = "resolved", ![k].writes = @ + 1]
  /\ settled' = settled \cup SettledNow(tasks', i)
  /\ UNCHANGED << complete, files, entry, input, file, playlist, playlistData,
                  selectedVideos, opts, urls, urlsToProcess, results, errors,
                  i, dispatched, delayLog, elapsed, report, thrown, pc >>

\* ffmpeg emits 'end': the output file is written
FfmpegEnd(k) ==
  /\ pc = "await" /\ k \in 1..Len(tasks) /\ tasks[k].phase = "ffmpeg"
  /\ files' = files \cup {tasks[k].filename}
  /\ complete' = complete \cup {tasks[k].filename}
  /\ tasks' = [tasks EXCEPT ![k].phase = "resolved", ![k].writes = @ + 1]
  /\ settled' = settled \cup SettledNow(tasks', i)
  /\ UNCHANGED << entry, input, file, playlist, playlistData, selectedVideos,
                  opts, urls, urlsToProcess, results, errors, i, dispatched,
                  delayLog, elapsed, report, thrown, pc >>

\* ffmpeg emits 'error'; a partial output file may or may not be left
FfmpegError(k) ==
  /\ pc = "await" /\ k \in 1..Len(tasks) /\ tasks[k].phase = "ffmpeg"
  /\ \E partial \in BOOLEAN :
       /\ files' = IF partial THEN files \cup {tasks[k].filename} ELSE files
       /\ tasks' = [tasks EXCEPT ![k].phase = "rejected",
                                 ![k].error = "ffmpeg error",
                                 ![k].writes = IF partial THEN @ + 1 ELSE @]
  /\ settled' = settled \cup SettledNow(tasks', i)
  /\ UNCHANGED << complete, entry, input, file, playlist, playlistData, selectedVideos,
                  opts, urls, urlsToProcess, results, errors, i, dispatched,
                  delayLog, elapsed, report, thrown, pc >>

\* { url, ...result } of a resolved call, { url, error } of a rejected one
ResultOf(t) ==
  [url |-> t.url, success |-> TRUE, filename |-> t.filename, skipped |-> t.skipped]
ErrorOf(t) == [url |-> t.url, error |-> t.error]

\* ------------------------------------------- downloadFromFile: scheduler
Sequential == opts.concurrent = Num(1)
concurrent == opts.concurrent.v
DelayPositive == JsLt(Num(0), opts.delay)

\* sequential loop: the next item is handed to downloadMp3 and awaited
SeqDispatch ==
  /\ pc = "loop" /\ Sequential
  /\ i < Len(urlsToProcess)
  /\ tasks' = <<StartTask(urlsToProcess[i + 1])>>
  /\ settled' = settled \cup SettledNow(tasks', i)
  /\ dispatched' = Append(dispatched, <<i>>)
  /\ pc' = "await"
  /\ UNCHANGED << complete, entry, input, file, playlist, playlistData, selectedVideos,
                  opts, urls, urlsToProcess, results, errors, i, files,
                  delayLog, elapsed, report, thrown >>

\* the await returns a result: it is pushed, then the delay is taken unless
\* this was the last item
SeqResolved ==
  /\ pc = "await" /\ Sequential
  /\ tasks[1].phase = "resolved"
  /\ results' = Append(results, ResultOf(tasks[1]))
  /\ tasks' = <<>>
  /\ IF i < Len(urlsToProcess) - 1 /\ DelayPositive
       THEN pc' = "delay" /\ i' = i
       ELSE pc' = "loop" /\ i' = i + 1
  /\ UNCHANGED << complete, settled, entry, input, file, playlist, playlistData, selectedVideos,
                  opts, urls, urlsToProcess, errors, files, dispatched,
                  delayLog, elapsed, report, thrown >>

\* variant: the catch block ends the loop at the first failure
SeqRejected_FailFast ==
  /\ pc = "await" /\ Sequential
  /\ tasks[1].phase = "rejected"
  /\ errors' = Append(errors, ErrorOf(tasks[1]))
  /\ tasks' = <<>>
  /\ pc' = "loop" /\ i' = Len(urlsToProcess)
  /\ UNCHANGED << complete, settled, entry, input, file, playlist, playlistData,
                  selectedVideos, opts, urls, urlsToProcess, results, files,
                  dispatched, delayLog, elapsed, report, thrown >>

\* variant: no catch block, the item's error leaves downloadFromFile
SeqRejected_Rethrow ==
  /\ pc = "await" /\ Sequential
  /\ tasks[1].phase = "rejected"
  /\ thrown' = tasks[1].error
  /\ tasks' = <<>>
  /\ pc' = "threw"
  /\ UNCHANGED << complete, settled, entry, input, file, playlist, playlistData,
                  selectedVideos, opts, urls, urlsToProcess, results, errors,
                  i, files, dispatched, delayLog, elapsed, report >>

\* the await throws: the catch block records the error and the loop goes on
SeqRejected ==
  /\ pc = "await" /\ Sequential
  /\ tasks[1].phase = "rejected"
  /\ errors' = Append(errors, ErrorOf(tasks[1]))
  /\ tasks' = <<>>
  /\ pc' = "loop" /\ i' = i + 1
  /\ UNCHANGED << complete, settled, entry, input, file, playlist, playlistData, selectedVideos,
                  opts, urls, urlsToProcess, results, files, dispatched,
                  delayLog, elapsed, report, thrown >>

\* variant: the slice is one item too long
ChunkDispatch_Wide ==
  /\ pc = "loop" /\ ~Sequential
  /\ i < Len(urlsToProcess)
  /\ LET chunk == Slice(urlsToProcess, Num(i), Num(i + concurrent + 1))
     IN /\ tasks' = [k \in 1..Len(chunk) |-> StartTask(chunk[k])]
        /\ settled' = settled \cup SettledNow(tasks', i)
        /\ dispatched' = Append(dispatched, [k \in 1..Len(chunk) |-> i + k - 1])
  /\ pc' = "await"
  /\ UNCHANGED << complete, entry, input, file, playlist, playlistData, selectedVideos,
                  opts, urls, urlsToProcess, results, errors, i, files,
                  delayLog, elapsed, report, thrown >>

\* chunked loop: the next slice is mapped over downloadMp3
ChunkDispatch ==
  /\ pc = "loop" /\ ~Sequential
  /\ i < Len(urlsToProcess)
  /\ LET chunk == Slice(urlsToProcess, Num(i), Num(i + concurrent))
     IN /\ tasks' = [k \in 1..Len(chunk) |-> StartTask(chunk[k])]
        /\ settled' = settled \cup SettledNow(tasks', i)
        /\ dispatched' = Append(dispatched, [k \in 1..Len(chunk) |-> i + k - 1])
  /\ pc' = "await"
  /\ UNCHANGED << complete, entry, input, file, playlist, playlistData, selectedVideos,
                  opts, urls, urlsToProcess, results, errors, i, files,
                  delayLog, elapsed, report, thrown >>

\* variant: the join returns at the first settled call (Promise.race)
AllSettled_Any(ts) == \E k \in 1..Len(ts) : Settled(ts[k])

\* what Promise.all waits for
AllSettled(ts) == \A k \in 1..Len(ts) : Settled(ts[k])

\* variant: the records are collected last call first
ChunkResults_Reversed(ts) ==
  [k \in 1..Len(ts) |->
     IF ts[Len(ts) + 1 - k].phase = "rejected"
       THEN ErrorOf(ts[Len(ts) + 1 - k]) ELSE ResultOf(ts[Len(ts) + 1 - k])]

\* chunkResults: one record per call, in dispatch order
ChunkResults(ts) ==
  [k \in 1..Len(ts) |->
     IF ts[k].phase = "rejected" THEN ErrorOf(ts[k]) ELSE ResultOf(ts[k])]

\* if (result.error)
HasError(r) == "error" \in DOMAIN r /\ r.error # ""

RECURSIVE Filter(_, _)
Filter(rs, wantError) ==
  IF rs = <<>> THEN <<>>
  ELSE (IF HasError(Head(rs)) = wantError THEN <<Head(rs)>> ELSE <<>>)
         \o Filter(Tail(rs), wantError)

\* variant: the delay test also passes after the last chunk
ChunkJoin_DelayAfterLast ==
  /\ pc = "await" /\ ~Sequential
  /\ AllSettled(tasks)
  /\ results' = results \o Filter(ChunkResults(tasks), FALSE)
  /\ errors' = errors \o Filter(ChunkResults(tasks), TRUE)
  /\ tasks' = <<>>
  /\ IF i + concurrent <= Len(urlsToProcess) /\ DelayPositive
       THEN pc' = "delay" /\ i' = i
       ELSE pc' = "loop" /\ i' = i + concurrent
  /\ UNCHANGED << complete, settled, entry, input, file, playlist, playlistData,
                  selectedVideos, opts, urls, urlsToProcess, files, dispatched,
                  delayLog, elapsed, report, thrown >>

\* Promise.all has resolved: the outcomes are sorted into results and errors,
\* then the delay is taken unless this was the last chunk
ChunkJoin ==
  /\ pc = "await" /\ ~Sequential
  /\ AllSettled(tasks)
  /\ results' = results \o Filter(ChunkResults(tasks), FALSE)
  /\ errors' = errors \o Filter(ChunkResults(tasks), TRUE)
  /\ tasks' = <<>>
  /\ IF i + concurrent < Len(urlsToProcess) /\ DelayPositive
       THEN pc' = "delay" /\ i' = i
       ELSE pc' = "loop" /\ i' = i + concurrent
  /\ UNCHANGED << complete, settled, entry, input, file, playlist, playlistData, selectedVideos,
                  opts, urls, urlsToProcess, files, dispatched, delayLog,
                  elapsed, report, thrown >>

\* the setTimeout of the delay fires and the loop index advances
DelayDone ==
  /\ pc = "delay"
  /\ delayLog' = Append(delayLog, Len(dispatched))
  /\ elapsed' = elapsed + opts.delay.v
  /\ i' = IF Sequential THEN i + 1 ELSE i + concurrent
  /\ pc' = "loop"
  /\ UNCHANGED << complete, settled, entry, input, file, playlist, playlistData, selectedVideos,
                  opts, urls, urlsToProcess, results, errors, tasks, files,
                  dispatched, report, thrown >>

\* the loop is over: the report is returned
Return ==
  /\ pc = "loop"
  /\ ~(i < Len(urlsToProcess))
  /\ report' = << [results |-> results, errors |-> errors,
                   total |-> Len(urlsToProcess), fullListTotal |-> Len(urls)] >>
  /\ pc' = "returned"
  /\ UNCHANGED << complete, settled, entry, input, file, playlist, playlistData, selectedVideos,
                  opts, urls, urlsToProcess, results, errors, i, tasks, files,
                  dispatched, delayLog, elapsed, thrown >>

\* ------------------------------------------------ after downloadFromFile
\* main() prints the summary
CliSummary ==
  /\ pc = "returned" /\ entry = "cli"
  /\ pc' = "done"
  /\ UNCHANGED << complete, settled, entry, input, file, playlist, playlistData, selectedVideos,
                  opts, urls, urlsToProcess, results, errors, i, tasks, files,
                  dispatched, delayLog, elapsed, report, thrown >>

\* main() catches the error and exits with status 1
CliCatch ==
  /\ pc = "threw" /\ entry = "cli"
  /\ pc' = "exit1"
  /\ UNCHANGED << complete, settled, entry, input, file, playlist, playlistData, selectedVideos,
                  opts, urls, urlsToProcess, results, errors, i, tasks, files,
                  dispatched, delayLog, elapsed, report, thrown >>

\* getPlaylistDetails returns selectedVideos
AskReturn ==
  /\ pc = "returned" /\ entry = "interactive"
  /\ pc' = "done"
  /\ UNCHANGED << complete, settled, entry, input, file, playlist, playlistData, selectedVideos,
                  opts, urls, urlsToProcess, results, errors, i, tasks, files,
                  dispatched, delayLog, elapsed, report, thrown >>

\* getPlaylistDetails catches the error and prints it
AskCatch ==
  /\ pc = "threw" /\ entry = "interactive"
  /\ pc' = "caught"
  /\ UNCHANGED << complete, settled, entry, input, file, playlist, playlistData, selectedVideos,
                  opts, urls, urlsToProcess, results, errors, i, tasks, files,
                  dispatched, delayLog, elapsed, report, thrown >>

Pipeline ==
  \E k \in 1..MaxConc : InfoOk(k) \/ InfoFail(k) \/ FfmpegEnd(k) \/ FfmpegError(k)

Next ==
  \/ DirectCall \/ CliMain
  \/ ExtractOk \/ ExtractFail \/ ExtractInvalid
  \/ AskReject \/ AskAccept
  \/ DffThrow \/ DffSelect
  \/ SeqDispatch \/ SeqResolved \/ SeqRejected
  \/ ChunkDispatch \/ ChunkJoin
  \/ DelayDone \/ Return
  \/ Pipeline
  \/ CliSummary \/ CliCatch \/ AskReturn \/ AskCatch

Spec == Init /\ [][Next]_vars

\* every step that is enabled is eventually taken: the event loop runs each
\* continuation, timer and stream event that is ready
FairSpec == Init /\ [][Next]_vars /\ WF_vars(Next)

\* reading and parsing the list file alone: the call and the first statements
\* of downloadFromFile
NextParse == DirectCall \/ DffThrow \/ DffSelect
SpecParse == InitParse /\ [][NextParse]_vars

\* ------------------------------------------------------------- properties
N == Len(urlsToProcess)
Min(a, b) == IF a < b THEN a ELSE b

RECURSIVE Flatten(_)
Flatten(ss) == IF ss = <<>> THEN <<>> ELSE Head(ss) \o Flatten(Tail(ss))

\* the sublist positions 0..n-1 in order
Positions(n) == [k \in 1..n |-> k - 1]

\* the sublist positions handed to downloadMp3 so far
DispatchedSet == {Flatten(dispatched)[k] : k \in 1..Len(Flatten(dispatched))}
ResolvedSet == {p \in DispatchedSet : <<p, "resolved">> \in settled}
RejectedSet == {p \in DispatchedSet : <<p, "rejected">> \in settled}

\* the calls of downloadMp3 that have started and not settled
InFlight == Cardinality(DispatchedSet \ (ResolvedSet \cup RejectedSet))

\* the items handed to downloadMp3, in dispatch order
ProcessedUrls ==
  [k \in 1..Len(Flatten(dispatched)) |-> urlsToProcess[Flatten(dispatched)[k] + 1]]

Returned == report # <<>>

\* C1: in sequential mode with a positive delay the delay is observed after
\* every item but the last, whatever the item's outcome: N-1 delays in every
\* run and at least (N-1)*delay of elapsed time.
C1_DelayAfterEveryItem ==
  (Returned /\ Sequential /\ DelayPositive /\ N >= 1) =>
    /\ Len(delayLog) = N - 1
    /\ elapsed >= (N - 1) * opts.delay.v

\* C2: in both modes every item of the sublist goes through downloadMp3
\* exactly once whatever the other items do, every item settles and lands in
\* exactly one of results and errors, results.length + errors.length = total,
\* and a single failing item k gives N-1 results and one error with k's url.
C2_EveryItemExactlyOnce ==
  Returned =>
    /\ Flatten(dispatched) = Positions(N)
    /\ \A p \in 0..(N - 1) : (p \in ResolvedSet) # (p \in RejectedSet)
    /\ report[1].total = N
    /\ Len(report[1].results) + Len(report[1].errors) = report[1].total
    /\ Len(report[1].results) = Cardinality(ResolvedSet)
    /\ Len(report[1].errors) = Cardinality(RejectedSet)
    /\ \A p \in RejectedSet :
         \E k \in 1..Len(report[1].errors) :
           report[1].errors[k].url = urlsToProcess[p + 1]
    /\ \A p \in 0..(N - 1) :
         RejectedSet = {p} =>
           /\ Len(report[1].results) = N - 1
           /\ Len(report[1].errors) = 1
           /\ report[1].errors[1].url = urlsToProcess[p + 1]

\* a chunked run of three items whose middle item alone failed
C2_Witness ==
  /\ Returned /\ ~Sequential /\ N = 3
  /\ RejectedSet = {1}
  /\ Len(report[1].results) = 2

\* C3: in chunked mode the items are dispatched as consecutive slices of
\* size c in list order, ceil(n/c) of them, only the last possibly smaller,
\* and a positive delay is taken once after every chunk but the last.
ChunkCount(n, c) == (n + c - 1) \div c
ExpectedChunk(j, n, c) ==
  [k \in 1..(Min(j * c, n) - (j - 1) * c) |-> (j - 1) * c + k - 1]
C3_ChunksAndDelays ==
  (Returned /\ ~Sequential /\ concurrent > 1) =>
    /\ dispatched =
         [j \in 1..ChunkCount(N, concurrent) |-> ExpectedChunk(j, N, concurrent)]
    /\ delayLog = IF DelayPositive
                    THEN [j \in 1..(ChunkCount(N, concurrent) - 1) |-> j]
                    ELSE <<>>

\* four items with concurrency three: chunks of 3 and 1, one delay
C3_Witness ==
  /\ Returned /\ concurrent = 3 /\ N = 4
  /\ Len(dispatched) = 2 /\ Len(dispatched[2]) = 1
  /\ delayLog = <<1>>

\* C4: in chunked mode, whenever a later chunk has been dispatched every
\* item of each earlier chunk has settled and, with a positive delay, the
\* delay after that earlier chunk has elapsed.
C4_ChunkBarrier ==
  ~Sequential =>
    \A j \in 1..(Len(dispatched) - 1) :
      /\ \A k \in 1..Len(dispatched[j]) :
           dispatched[j][k] \in ResolvedSet \cup RejectedSet
      /\ DelayPositive => (Len(delayLog) >= j /\ delayLog[j] = j)

\* the second chunk is in flight after a first chunk in which one item failed
\* and another succeeded
C4_Witness ==
  /\ ~Sequential /\ DelayPositive /\ pc = "await"
  /\ Len(dispatched) = 2 /\ InFlight >= 1
  /\ 0 \in RejectedSet /\ 1 \in ResolvedSet

\* C5: the number of downloadMp3 calls in flight never exceeds the
\* concurrency: at most c in chunked mode, at most one in sequential mode.
C5_BoundedInFlight == InFlight <= concurrent

\* three calls in flight at concurrency three
C5_Witness == InFlight = 3 /\ concurrent = 3

\* C6: once the list is parsed no item makes downloadFromFile throw, and with
\* every started pipeline settling the run returns a report, even when every
\* item failed.
C6_AlwaysReports ==
  /\ (pc = "loop") ~> Returned
  /\ [](thrown # "" => dispatched = <<>>)

\* a report returned after every one of at least two items failed
C6_Witness ==
  /\ Returned /\ N >= 2
  /\ Len(report[1].errors) = N /\ report[1].results = <<>>

\* what the caller asked for: the numbers meant by the start and end inputs
ReqStart == IF input.start.given THEN input.start.num.v ELSE 0
\* the inclusive end: the CLI and the prompts take it as such, a direct call
\* passes the exclusive endIndex
ReqEnd == IF entry = "direct" THEN input.end.num.v - 1 ELSE input.end.num.v
ValidRange ==
  \/ input.start.given /\ input.end.given /\ 0 <= ReqStart /\ ReqStart <= ReqEnd
  \/ ~input.start.given /\ ~input.end.given
Ended == {"returned", "done", "rejected", "caught", "exit1", "threw"}

\* C7: through the CLI and the prompts, for a non-empty work list and an
\* inclusive range 0 <= start <= end the items processed are exactly the
\* list elements start..min(end, len-1) in order, and the whole list when no
\* range is given.
C7_RangeProcessedExactly ==
  (entry \in {"cli", "interactive"} /\ ValidRange) =>
    /\ pc # "rejected"
    /\ pc = "done" =>
         ProcessedUrls =
           SubSeq(urls, ReqStart + 1,
                  IF input.end.given THEN Min(ReqEnd, Len(urls) - 1) + 1
                  ELSE Len(urls))

\* C8: a request whose inclusive end is before its start (start=2, end=1)
\* fails before any item is processed and returns no report.
C8_InvertedRangeRejected ==
  (entry \in {"cli", "interactive"}
     /\ input.start.given /\ input.end.given /\ 0 <= ReqStart /\ 0 <= ReqEnd
     /\ ReqEnd < ReqStart) =>
    /\ ~Returned
    /\ dispatched = <<>>

\* C9: a request with a negative start fails through every entry point and
\* processes no item.
C9_NegativeStartRejected ==
  (input.start.given /\ ReqStart < 0) =>
    /\ ~Returned
    /\ dispatched = <<>>

\* C10: a request whose non-negative start is at or beyond the length of the
\* list ends, whatever its end, with a report of total 0 and no results or
\* errors, and is not rejected.  (In the interactive entry the list is the
\* one extracted and written in this run.)
C10_StartBeyondIsEmpty ==
  (/\ pc \in Ended
   /\ input.start.given /\ file.exists
   /\ ParseUrls(file.lines) # <<>>
   /\ ReqStart >= Len(ParseUrls(file.lines))
   /\ entry = "interactive" =>
        (playlistData.def /\ playlistData.list = ParseUrls(file.lines)))
  => report = << [results |-> <<>>, errors |-> <<>>, total |-> 0,
                  fullListTotal |-> Len(ParseUrls(file.lines))] >>

\* an earlier downloadMp3 of the same item has been reported as a success and
\* its output file is present
PriorSuccess(t) ==
  /\ \E j \in 1..Len(results) : results[j].url = t.url
  /\ extractVideoId(t.url) # ""
  /\ FilenameOf(extractVideoId(t.url)) \in files

SourceBad == ~file.exists \/ ParseUrls(file.lines) = <<>>
\* downloadFromFile has been called and is past its first statements
PastSource == opts # NoOpts /\ pc # "dff"

\* C12: a missing source file or one without a valid item reference makes
\* downloadFromFile throw before any item is processed: no downloadMp3 call,
\* no report; and downloadFromFile throws for nothing else, so item failures
\* are only ever found inside a returned report.
C12_SourceErrorAborts ==
  /\ (PastSource /\ SourceBad) =>
       /\ thrown # "" /\ ~Returned
       /\ dispatched = <<>> /\ settled = {} /\ tasks = <<>>
       /\ results = <<>> /\ errors = <<>>
  /\ thrown # "" => (SourceBad /\ ~Returned /\ errors = <<>>)
  /\ (PastSource /\ ~SourceBad) => thrown = ""

\* downloadFromFile threw on a file that exists and has a line, none valid
C12_Witness ==
  /\ thrown = "No valid YouTube URLs found in file"
  /\ file.exists /\ file.lines # <<>>

\* the validity of a trimmed line as C13 words it
C13_Valid(l) ==
  /\ Len(l) > 0
  /\ l[1] # "#"
  /\ \E p \in 1..Len(l) : l[p] \in {"youtube.com", "youtu.be"}
C13_KeptIdx(lines) == {p \in 1..Len(lines) : C13_Valid(Trim(lines[p]))}
\* the k-th smallest element of a set of numbers
C13_Kth(S, k) == CHOOSE p \in S : Cardinality({q \in S : q < p}) = k - 1
C13_Expected(lines) ==
  [k \in 1..Cardinality(C13_KeptIdx(lines)) |->
     Trim(lines[C13_Kth(C13_KeptIdx(lines), k)])]
C13_Scenario ==
  << UrlLine(1), <<"#", "youtube.com", "/watch?v=", VideoIdNames[3]>>, <<>>,
     <<"x">>, <<" ", "youtu.be", "/", VideoIdNames[2], " ">> >>

\* C13: the work list is exactly the lines that, trimmed, are non-empty, do
\* not begin with '#' and name a known host, in the order of the file and
\* with duplicates kept; a valid line, a comment, an empty line, an invalid
\* line and a second valid line give the two valid entries in that order.
C13_WorkListIsFilteredLines ==
  /\ pc = "loop" => urls = C13_Expected(file.lines)
  /\ pc = "threw" => C13_Expected(file.lines) = <<>>
  /\ (pc = "loop" /\ file.lines = C13_Scenario) =>
       urls = << UrlLine(1), <<"youtu.be", "/", VideoIdNames[2]>> >>

\* the five-line scenario has been parsed
C13_Witness ==
  /\ pc = "loop" /\ file.lines = C13_Scenario /\ Len(urls) = 2

\* C14: after downloadMp3 has rejected an item with an ffmpeg error, a later
\* downloadMp3 of the same item in the same directory is not answered
\* "skipped" on the strength of the file the failed attempt left: a skipped
\* success always stands on a finished output file.
C14_NoPartialMistaken ==
  \A k \in 1..Len(tasks) :
    (/\ tasks[k].phase = "resolved" /\ tasks[k].skipped
     /\ \E j \in 1..Len(errors) :
          errors[j].url = tasks[k].url /\ errors[j].error = "ffmpeg error")
    => tasks[k].filename \in complete

\* two reported successes that both transcoded to the same output file
DoubleWrite(rs) ==
  \E a, b \in 1..Len(rs) :
    /\ a < b
    /\ rs[a].filename = rs[b].filename
    /\ ~rs[a].skipped /\ ~rs[b].skipped

\* C15: two items that resolve to the same file name can both be reported as
\* non-skipped successes only in chunked mode, where both may pass the
\* existence check before either writes; in sequential mode the second item
\* finds the first item's file and is skipped.
C15_DoubleWriteOnlyChunked ==
  /\ DoubleWrite(results) => ~Sequential
  /\ Sequential =>
       \A k \in 1..Len(tasks) :
         (\E j \in 1..Len(results) :
            results[j].filename = FilenameOf(extractVideoId(tasks[k].url)))
         => tasks[k].phase # "ffmpeg"

\* a chunked run returned two non-skipped successes for one file and no error
C15_Witness ==
  /\ Returned /\ ~Sequential
  /\ DoubleWrite(report[1].results)
  /\ report[1].errors = <<>>

\* C16 as stated: every downloadMp3 call, whatever its outcome, makes exactly
\* one existence check of the output path and at most one write, and no
\* write when the check found the file.
C16_ExactlyOneCheck ==
  \A k \in 1..Len(tasks) :
    Settled(tasks[k]) =>
      /\ tasks[k].checks = 1
      /\ tasks[k].writes <= 1
      /\ tasks[k].skipped => tasks[k].writes = 0

\* C16 amended: a call makes at most one existence check, exactly one when
\* its metadata fetch succeeded and none when the reference is invalid or the
\* metadata fetch failed; it writes the output at most once, only after a
\* check that did not find the file, and never when the check found it.
C16_AtMostOneCheck ==
  \A k \in 1..Len(tasks) :
    /\ tasks[k].checks <= 1 /\ tasks[k].writes <= 1
    /\ tasks[k].writes = 1 => (tasks[k].checks = 1 /\ ~tasks[k].skipped)
    /\ tasks[k].skipped => (tasks[k].checks = 1 /\ tasks[k].writes = 0)
    /\ Settled(tasks[k]) =>
         tasks[k].checks =
           IF tasks[k].error \in {"Invalid YouTube URL", "Failed to get video info"}
             THEN 0 ELSE 1

\* one chunk holds a call rejected on its metadata without a check and a call
\* that checked once and wrote once
C16_Witness ==
  \E k, m \in 1..Len(tasks) :
    /\ tasks[k].error = "Failed to get video info" /\ tasks[k].checks = 0
    /\ tasks[m].phase = "resolved" /\ tasks[m].checks = 1 /\ tasks[m].writes = 1

\* the sublist positions whose outcome has been taken by the scheduler: all
\* dispatched ones but those of the calls still awaited
JoinedPositions ==
  IF tasks = <<>> THEN Flatten(dispatched)
  ELSE Flatten(SubSeq(dispatched, 1, Len(dispatched) - 1))

UrlsAt(ps) == [k \in 1..Len(ps) |-> urlsToProcess[ps[k] + 1]]
UrlsOf(rs) == [k \in 1..Len(rs) |-> rs[k].url]
IsResolved(p) == p \in ResolvedSet
IsRejected(p) == p \in RejectedSet

\* C17: in both modes results and errors each hold their records in sublist
\* order whatever the completion order inside a chunk: nothing is appended
\* while a chunk is awaited, the outcomes taken so far are those of a prefix
\* of the sublist, and each list is that prefix's resolved (rejected) items in
\* ascending position, so chunk N's records precede chunk N+1's.
C17_ListsInSublistOrder ==
  /\ pc = "await" => Len(results) + Len(errors) = i
  /\ JoinedPositions = Positions(Len(JoinedPositions))
  /\ UrlsOf(results) = UrlsAt(SelectSeq(JoinedPositions, IsResolved))
  /\ UrlsOf(errors) = UrlsAt(SelectSeq(JoinedPositions, IsRejected))
  /\ Returned => /\ report[1].results = results
                 /\ report[1].errors = errors

\* a second chunk whose last call has settled before its first call, after
\* the first chunk left two records in one list
C17_Witness ==
  /\ pc = "await" /\ ~Sequential /\ i > 0
  /\ Len(tasks) >= 2
  /\ ~Settled(tasks[1])
  /\ tasks[Len(tasks)].phase = "resolved"
  /\ Len(results) >= 2
  /\ results[1].url # results[2].url

\* C18: in the interactive entry point, for every accepted (start, end) the
\* list getPlaylistDetails returns (selectedVideos) is the sequence of items
\* the scheduler call of that run processes, both being the elements
\* start..min(end, len-1) of the extracted list (stated for the answers
\* 0 <= start <= end and for two empty answers, over a playlist.txt that
\* holds the extracted list).
C18_ReturnedIsProcessed ==
  (entry = "interactive" /\ pc = "done" /\ urls = playlistData.list
     /\ ValidRange) =>
    /\ selectedVideos = ProcessedUrls
    /\ selectedVideos =
         SubSeq(playlistData.list, ReqStart + 1,
                IF input.end.given THEN Min(ReqEnd, totalVideos - 1) + 1
                ELSE totalVideos)

\* C19: in the interactive entry point every item handed to downloadMp3 is
\* an element of the list extracted in the current run; when the extraction
\* returned an empty list nothing is processed, whatever the answers.
C19_OnlyExtractedItems ==
  entry = "interactive" =>
    \A k \in 1..Len(ProcessedUrls) :
      \E m \in 1..Len(playlistData.list) : playlistData.list[m] = ProcessedUrls[k]

====
